---------------------------- MODULE Spec2Model ----------------------------
(***************************************************************************)
(* Model of engine/autocompleter.py: the _SuggestionTree built by          *)
(* recursive expansion against a TermIndex, its ancestry paths, and the    *)
(* Autocompleter whose _suggestion_paths is memoised by functools'         *)
(* lru_cache.                                                              *)
(*                                                                         *)
(* A string is a sequence of one-character strings.  A Term is modelled by *)
(* its value.  Indices (start_index, end_index) are 0-based as in the      *)
(* code.  The recursion of _SuggestionTree.__init__ is run on an explicit  *)
(* call stack, one frame per constructor invocation in progress.           *)
(***************************************************************************)
EXTENDS Integers, Sequences, FiniteSets, TLC

VARIABLES
    words_split_regex, \* Autocompleter.words_split_regex
    index,             \* contents of the TermIndex: word -> ordered Terms
    cache,             \* the lru_cache of _suggestion_paths, oldest first
    pc,                \* "new" | "idle" | "build"
    input_text,        \* argument of the call in progress / last call
    input_words,       \* regex_split(words_split_regex, input_text)
    nodes,             \* the _SuggestionTree objects of the current tree
    stack,             \* constructor invocations in progress (root first)
    result,            \* outcome of the last call of suggestions
    searched,          \* history: nodes whose constructor called term_index.search
    hadEntry,          \* history: the cache held the key when the call began
    repeat,            \* history: the text had been answered before this call
    recency,           \* history: keys ever stored, by last use (oldest first)
    firstOut           \* history: text -> first output returned for it

vars == <<words_split_regex, index, cache, pc, input_text, input_words, nodes,
          stack, result, searched, hadEntry, repeat, recency, firstOut>>

---------------------------------------------------------------------------
(* Bounds of the model *)

\* The cache capacity explored by the model checker (the program's is 128).
CacheBound == 2
\* Number of Terms the index holds, over all words.
MaxTerms == 3

---------------------------------------------------------------------------
(* Strings *)

None == <<"None">>

WordChars == {"a", "b"}

Min(x, y) == IF x < y THEN x ELSE y

\* \W of the default pattern: anything that is not a word character
IsNonWord(c) == c \notin WordChars

\* index of the first word character of s at or after i (Len(s)+1 if none)
RECURSIVE SkipNonWord(_, _)
SkipNonWord(s, i) ==
    IF i > Len(s) \/ ~IsNonWord(s[i]) THEN i ELSE SkipNonWord(s, i + 1)

RECURSIVE SplitFrom(_, _, _, _)
SplitFrom(s, i, cur, acc) ==
    IF i > Len(s) THEN Append(acc, cur)
    ELSE IF IsNonWord(s[i])
         THEN SplitFrom(s, SkipNonWord(s, i), <<>>, Append(acc, cur))
         ELSE SplitFrom(s, i + 1, Append(cur, s[i]), acc)

DefaultRegex == "\\W+"
BadRegex == "("

valid_pattern(pattern) == pattern = DefaultRegex

\* re.split(r"\W+", text): the pieces between maximal runs of non-word
\* characters, empty pieces at the edges included
regex_split(pattern, text) == SplitFrom(text, 1, <<>>, <<>>)

\* value.split(" "): the pieces between single spaces
RECURSIVE SpaceSplitFrom(_, _, _, _)
SpaceSplitFrom(s, i, cur, acc) ==
    IF i > Len(s) THEN Append(acc, cur)
    ELSE IF s[i] = " "
         THEN SpaceSplitFrom(s, i + 1, <<>>, Append(acc, cur))
         ELSE SpaceSplitFrom(s, i + 1, Append(cur, s[i]), acc)

split_space(value) == SpaceSplitFrom(value, 1, <<>>, <<>>)

\* variant: the spaces of the value are counted, not its words
word_count_spaces(value) == Cardinality({i \in 1..Len(value) : value[i] = " "})

\* len(result.value.split(" "))
word_count(value) == Len(split_space(value))

\* " ".join(words)
RECURSIVE join_space(_)
join_space(words) ==
    IF words = <<>> THEN <<>>
    ELSE IF Len(words) = 1 THEN words[1]
    ELSE words[1] \o <<" ">> \o join_space(Tail(words))

\* word_list[lo:hi], a Python slice: clamped to the list
slice(word_list, lo, hi) == SubSeq(word_list, lo + 1, Min(hi, Len(word_list)))

\* s.startswith(prefix)
startswith(s, prefix) ==
    /\ Len(prefix) <= Len(s)
    /\ SubSeq(s, 1, Len(prefix)) = prefix

\* variant: the prefix test is left out
accepts_any(value, word_list, child_start_index, child_end_index) == TRUE

\* the test of lines 46-48, negated: the candidate is kept
accepts(value, word_list, child_start_index, child_end_index) ==
    startswith(value, join_space(slice(word_list, child_start_index, child_end_index)))

---------------------------------------------------------------------------
(* _SuggestionTree *)

\* a node as the constructor leaves it at lines 30-35
new_node(term, start_index, end_index) ==
    [term |-> term, start_index |-> start_index, end_index |-> end_index,
     children |-> <<>>]

\* _SuggestionTree.root
root_node == new_node(None, 0, 0)

\* "if self.end_index >= len(word_list): return"
out_of_words(end_index, word_list) == end_index >= Len(word_list)

RECURSIVE concat(_)
concat(lists) ==
    IF lists = <<>> THEN <<>> ELSE lists[1] \o concat(Tail(lists))

\* variant: the children are visited last to first
reversed(s) == [i \in 1..Len(s) |-> s[Len(s) + 1 - i]]

RECURSIVE paths_rev(_, _)
paths_rev(ns, n) ==
    IF ns[n].children = <<>> THEN << <<n>> >>
    ELSE concat([k \in 1..Len(ns[n].children) |->
                   LET sub == paths_rev(ns, reversed(ns[n].children)[k])
                   IN  [j \in 1..Len(sub) |-> <<n>> \o sub[j]]])

\* _SuggestionTree.paths: the ancestry paths below node n, as node ids
RECURSIVE paths(_, _)
paths(ns, n) ==
    IF ns[n].children = <<>> THEN << <<n>> >>
    ELSE concat([k \in 1..Len(ns[n].children) |->
                   LET sub == paths(ns, ns[n].children[k])
                   IN  [j \in 1..Len(sub) |-> <<n>> \o sub[j]]])

\* "[path for root_child in root.children for path in root_child.paths()]"
root_child_paths(ns) ==
    concat([k \in 1..Len(ns[1].children) |-> paths(ns, ns[1].children[k])])

\* variant: every path is kept
covers_all(end_index, n_words) == TRUE

\* "path[-1].end_index >= len(input_words)"
covers(end_index, n_words) == end_index >= n_words

\* a path as the list of the objects on it
path_objects(ns, path) ==
    [j \in 1..Len(path) |->
        [id |-> path[j], term |-> ns[path[j]].term,
         start_index |-> ns[path[j]].start_index,
         end_index |-> ns[path[j]].end_index]]

\* variant: the list is returned without the filter of line 99
suggestion_paths_unfiltered(ns, words) ==
    LET all == root_child_paths(ns)
    IN  [k \in 1..Len(all) |-> path_objects(ns, all[k])]

\* the value _suggestion_paths returns from the finished tree (lines 97-99)
suggestion_paths_value(ns, words) ==
    LET all  == root_child_paths(ns)
        kept == SelectSeq(all, LAMBDA p : covers(ns[p[Len(p)]].end_index, Len(words)))
    IN  [k \in 1..Len(kept) |-> path_objects(ns, kept[k])]

\* "[[node.term for node in path] for path in suggestion_paths]"
project(suggestion_paths) ==
    [k \in 1..Len(suggestion_paths) |->
        [j \in 1..Len(suggestion_paths[k]) |-> suggestion_paths[k][j].term]]

---------------------------------------------------------------------------
(* lru_cache(maxsize=suggestion_paths_cache_size) *)

suggestion_paths_cache_size == 128

\* the capacity in force in the model
maxsize == Min(suggestion_paths_cache_size, CacheBound)

\* the cache key of a call (one Autocompleter instance: the text)
make_key(text) == text

cache_pos(c, key) ==
    IF \E i \in 1..Len(c) : c[i].key = key
    THEN CHOOSE i \in 1..Len(c) : c[i].key = key
    ELSE 0

\* variant: the wrapper never finds the key
cache_never_has(c, key) == FALSE

cache_has(c, key) == cache_pos(c, key) # 0

\* variant: a hit answers with the oldest entry
cache_get_oldest(c, key) == c[1].value

\* the stored list of the entry
cache_get(c, key) == c[cache_pos(c, key)].value

without(c, i) == [j \in 1..(Len(c) - 1) |-> IF j < i THEN c[j] ELSE c[j + 1]]

\* variant: a hit leaves the order as it is
cache_no_promote(c, key) == c

\* a hit moves the entry to the most-recently-used end
cache_promote(c, key) ==
    Append(without(c, cache_pos(c, key)), c[cache_pos(c, key)])

\* a miss stores the result, evicting the oldest entry of a full cache
cache_store(c, key, value) ==
    IF Len(c) >= maxsize
    THEN Append(Tail(c), [key |-> key, value |-> value])
    ELSE Append(c, [key |-> key, value |-> value])

\* variant: a failed call is stored as an empty list
cache_store_empty_on_error(c, key) == cache_store(c, key, <<>>)

\* an exception leaves the function through the wrapper: nothing is stored
cache_on_error(c, key) == c

---------------------------------------------------------------------------
(* The inputs explored *)

A  == <<"a">>
B  == <<"b">>
AB == <<"a", " ", "b">>

Texts == { <<>>, <<"a">>, <<"a", " ", "b">>, <<"a", "-">> }

TermValues == {A, B, AB}

Range(s) == {s[i] : i \in 1..Len(s)}

\* the words the index holds Terms for (it holds none for the empty word)
IndexedWords == {A, B}

ResultLists == UNION {[1..n -> TermValues] : n \in 0..MaxTerms}

\* TermIndex.search: the ordered Terms the index holds for a word, none for
\* a word it does not know
search(idx, word) == IF word \in DOMAIN idx THEN idx[word] ELSE <<>>

RECURSIVE TermsHeld(_, _)
TermsHeld(f, ws) ==
    IF ws = {} THEN 0
    ELSE LET w == CHOOSE x \in ws : TRUE
         IN  Len(f[w]) + TermsHeld(f, ws \ {w})

\* the index contents explored: any result lists holding up to MaxTerms Terms
Indexes ==
    {f \in [IndexedWords -> ResultLists] : TermsHeld(f, IndexedWords) <= MaxTerms}

NoResult == [kind |-> "none", value |-> <<>>]

---------------------------------------------------------------------------
(* Actions *)

\* history: key becomes the most recently used
touch(r, key) == Append(SelectSeq(r, LAMBDA k : k # key), key)

Init ==
    /\ words_split_regex = DefaultRegex
    /\ index \in Indexes
    /\ cache = <<>>
    /\ pc = "idle"
    /\ input_text = <<>>
    /\ input_words = <<>>
    /\ nodes = <<>>
    /\ stack = <<>>
    /\ result = NoResult
    /\ searched = {}
    /\ hadEntry = FALSE
    /\ repeat = FALSE
    /\ recency = <<>>
    /\ firstOut = [t \in Texts |-> NoResult]

\* suggestions(text), the key is cached: lru_cache returns the stored list
CallHit(text) ==
    /\ pc = "idle"
    /\ cache_has(cache, make_key(text))
    /\ hadEntry' = (\E i \in 1..Len(cache) : cache[i].key = text)
    /\ repeat' = (firstOut[text] # NoResult)
    /\ input_text' = text
    /\ input_words' = <<>>
    /\ nodes' = <<>>
    /\ stack' = <<>>
    /\ searched' = {}
    /\ result' = [kind |-> "ok",
                  value |-> project(cache_get(cache, make_key(text)))]
    /\ cache' = cache_promote(cache, make_key(text))
    /\ recency' = touch(recency, text)
    /\ firstOut' = IF firstOut[text] = NoResult
                   THEN [firstOut EXCEPT ![text] = result']
                   ELSE firstOut
    /\ UNCHANGED <<words_split_regex, index, pc>>

\* suggestions(text), the key is not cached: _suggestion_paths runs; it
\* splits the text and calls _SuggestionTree.root
CallMiss(text) ==
    /\ pc = "idle"
    /\ ~cache_has(cache, make_key(text))
    /\ valid_pattern(words_split_regex)
    /\ hadEntry' = (\E i \in 1..Len(cache) : cache[i].key = text)
    /\ repeat' = (firstOut[text] # NoResult)
    /\ input_text' = text
    /\ input_words' = regex_split(words_split_regex, text)
    /\ nodes' = <<root_node>>
    /\ stack' = <<[node |-> 1, phase |-> "enter", results |-> <<>>, i |-> 1]>>
    /\ searched' = {}
    /\ result' = NoResult
    /\ pc' = "build"
    /\ UNCHANGED <<words_split_regex, index, cache, recency, firstOut>>

top == stack[Len(stack)]

\* the constructor returns: the caller appends the new object to its children
pop ==
    /\ stack' = SubSeq(stack, 1, Len(stack) - 1)
    /\ nodes' = IF Len(stack) > 1
                THEN [nodes EXCEPT ![stack[Len(stack) - 1].node].children =
                                        Append(@, top.node)]
                ELSE nodes

\* lines 37-38: out of words, the node stays a leaf
EnterLeaf ==
    /\ pc = "build" /\ stack # <<>> /\ top.phase = "enter"
    /\ out_of_words(nodes[top.node].end_index, input_words)
    /\ pop
    /\ UNCHANGED <<words_split_regex, index, cache, pc, input_text, input_words,
                   result, searched, hadEntry, repeat, recency, firstOut>>

\* line 39: term_index.search answers
SearchOk ==
    /\ pc = "build" /\ stack # <<>> /\ top.phase = "enter"
    /\ ~out_of_words(nodes[top.node].end_index, input_words)
    /\ stack' = [stack EXCEPT ![Len(stack)] =
                    [@ EXCEPT !.phase = "loop",
                              !.results = search(index,
                                  input_words[nodes[top.node].end_index + 1])]]
    /\ searched' = searched \cup {top.node}
    /\ UNCHANGED <<words_split_regex, index, cache, pc, input_text, input_words,
                   nodes, result, hadEntry, repeat, recency, firstOut>>

\* line 39: term_index.search raises; the exception leaves every constructor,
\* _suggestion_paths, the lru_cache wrapper and suggestions
SearchFail ==
    /\ pc = "build" /\ stack # <<>> /\ top.phase = "enter"
    /\ ~out_of_words(nodes[top.node].end_index, input_words)
    /\ searched' = searched \cup {top.node}
    /\ stack' = <<>>
    /\ nodes' = <<>>
    /\ cache' = cache_on_error(cache, make_key(input_text))
    /\ result' = [kind |-> "lookup_error", value |-> <<>>]
    /\ pc' = "idle"
    /\ UNCHANGED <<words_split_regex, index, input_text, input_words, hadEntry,
                   repeat, recency, firstOut>>

candidate == top.results[top.i]

child_start_index == nodes[top.node].end_index

child_end_index == child_start_index + word_count(candidate)

\* lines 46-49: the input is not a prefix of the suggestion, skip it
Skip ==
    /\ pc = "build" /\ stack # <<>> /\ top.phase = "loop"
    /\ top.i <= Len(top.results)
    /\ ~accepts(candidate, input_words, child_start_index, child_end_index)
    /\ stack' = [stack EXCEPT ![Len(stack)].i = @ + 1]
    /\ UNCHANGED <<words_split_regex, index, cache, pc, input_text, input_words,
                   nodes, result, searched, hadEntry, repeat, recency, firstOut>>

\* lines 50-58: the candidate is kept, its subtree is constructed
Descend ==
    /\ pc = "build" /\ stack # <<>> /\ top.phase = "loop"
    /\ top.i <= Len(top.results)
    /\ accepts(candidate, input_words, child_start_index, child_end_index)
    /\ nodes' = Append(nodes, new_node(candidate, nodes[top.node].end_index,
                          nodes[top.node].end_index + word_count(candidate)))
    /\ stack' = Append([stack EXCEPT ![Len(stack)].i = @ + 1],
                       [node |-> Len(nodes) + 1, phase |-> "enter",
                        results |-> <<>>, i |-> 1])
    /\ UNCHANGED <<words_split_regex, index, cache, pc, input_text, input_words,
                   result, searched, hadEntry, repeat, recency, firstOut>>

\* the loop of line 40 is exhausted: the constructor returns
Return ==
    /\ pc = "build" /\ stack # <<>> /\ top.phase = "loop"
    /\ top.i > Len(top.results)
    /\ pop
    /\ UNCHANGED <<words_split_regex, index, cache, pc, input_text, input_words,
                   result, searched, hadEntry, repeat, recency, firstOut>>

\* lines 97-99 and 103-106: the paths are listed and filtered, lru_cache
\* stores the list, suggestions projects it
Finish ==
    /\ pc = "build" /\ stack = <<>>
    /\ LET value == suggestion_paths_value(nodes, input_words)
       IN  /\ cache' = cache_store(cache, make_key(input_text), value)
           /\ result' = [kind |-> "ok", value |-> project(value)]
    /\ recency' = touch(recency, input_text)
    /\ firstOut' = IF firstOut[input_text] = NoResult
                   THEN [firstOut EXCEPT ![input_text] = result']
                   ELSE firstOut
    /\ pc' = "idle"
    /\ UNCHANGED <<words_split_regex, index, input_text, input_words, nodes,
                   stack, searched, hadEntry, repeat>>

\* Autocompleter.__init__ (lines 82-86): the pattern is stored as given
Construct(pattern) ==
    /\ pc = "new"
    /\ words_split_regex' = pattern
    /\ pc' = "idle"
    /\ UNCHANGED <<index, cache, input_text, input_words, nodes, stack, result,
                   searched, hadEntry, repeat, recency, firstOut>>

\* suggestions(text) on an instance whose pattern does not compile: the key
\* is not cached, regex_split raises re.error at line 93
CallBadPattern(text) ==
    /\ pc = "idle"
    /\ ~cache_has(cache, make_key(text))
    /\ ~valid_pattern(words_split_regex)
    /\ hadEntry' = (\E i \in 1..Len(cache) : cache[i].key = text)
    /\ repeat' = (firstOut[text] # NoResult)
    /\ input_text' = text
    /\ input_words' = <<>>
    /\ nodes' = <<>>
    /\ stack' = <<>>
    /\ searched' = {}
    /\ cache' = cache_on_error(cache, make_key(text))
    /\ result' = [kind |-> "pattern_error", value |-> <<>>]
    /\ UNCHANGED <<words_split_regex, index, pc, recency, firstOut>>

Next ==
    \/ \E text \in Texts : CallHit(text)
    \/ \E text \in Texts : CallMiss(text)
    \/ EnterLeaf
    \/ SearchOk
    \/ SearchFail
    \/ Skip
    \/ Descend
    \/ Return
    \/ Finish

Spec == Init /\ [][Next]_vars

\* the engine from its construction on, with either pattern
InitPattern ==
    /\ words_split_regex = DefaultRegex
    /\ index \in Indexes
    /\ cache = <<>>
    /\ pc = "new"
    /\ input_text = <<>>
    /\ input_words = <<>>
    /\ nodes = <<>>
    /\ stack = <<>>
    /\ result = NoResult
    /\ searched = {}
    /\ hadEntry = FALSE
    /\ repeat = FALSE
    /\ recency = <<>>
    /\ firstOut = [t \in Texts |-> NoResult]

NextPattern ==
    \/ \E pattern \in {DefaultRegex, BadRegex} : Construct(pattern)
    \/ \E text \in Texts : CallBadPattern(text)
    \/ Next

SpecPattern == InitPattern /\ [][NextPattern]_vars

\* a constructor in progress keeps running
FairSpec == Spec /\ WF_vars(EnterLeaf \/ SearchOk \/ Skip \/ Descend \/ Return \/ Finish)

---------------------------------------------------------------------------
(* Properties *)

Returned == pc = "idle" /\ result.kind = "ok"

\* the call that returned was a miss: its tree is still in nodes
Rebuilt == Returned /\ nodes # <<>>

searches == Cardinality(searched)

TokenCount(text) == Len(regex_split(DefaultRegex, text))

RECURSIVE TotalWords(_)
TotalWords(terms) ==
    IF terms = <<>> THEN 0
    ELSE word_count(terms[1]) + TotalWords(Tail(terms))

IsPrefix(p, s) == Len(p) <= Len(s) /\ \A i \in 1..Len(p) : s[i] = p[i]

\* the typed words of a span, clamped to the words there are, space-joined
TypedSpan(lo, hi) ==
    join_space([k \in 1..(Min(hi, Len(input_words)) - lo) |-> input_words[lo + k]])

Attached(n) == \E q \in 1..Len(nodes) : n \in Range(nodes[q].children)

Parent(n) == CHOOSE q \in 1..Len(nodes) : n \in Range(nodes[q].children)

\* the nodes from the root's child down to n
RECURSIVE Ancestry(_)
Ancestry(n) ==
    IF n = 1 THEN <<>>
    ELSE IF Attached(n) THEN Append(Ancestry(Parent(n)), n)
    ELSE <<n>>

CoveringLeaves ==
    {n \in 2..Len(nodes) : /\ nodes[n].children = <<>>
                           /\ nodes[n].end_index >= Len(input_words)}

Ids(path) == [j \in 1..Len(path) |-> path[j].id]

PosIn(seq, x) == CHOOSE i \in 1..Len(seq) : seq[i] = x

\* path p comes before path q in the depth-first order of the tree
DfsBefore(p, q) ==
    \E d \in 1..Min(Len(p), Len(q)) :
        /\ \A j \in 1..(d - 1) : p[j] = q[j]
        /\ p[d] # q[d]
        /\ LET kids == nodes[IF d = 1 THEN 1 ELSE p[d - 1]].children
           IN  PosIn(kids, p[d]) < PosIn(kids, q[d])

StoredPaths == cache_get(cache, input_text)

\* C1: every Term sequence returned by suggestions has a total word count
\* (single-space-separated words of the values) of at least the number of
\* tokens the input text splits into.
C1_Coverage ==
    Returned =>
        \A k \in 1..Len(result.value) :
            TotalWords(result.value[k]) >= TokenCount(input_text)

\* a miss returned suggestions while the filter dropped a path
C1_Witness ==
    /\ Rebuilt
    /\ result.value # <<>>
    /\ Len(root_child_paths(nodes)) > Len(result.value)

\* C2: for every non-root node created during tree construction the
\* space-joined token slice over its span, clamped to the typed tokens, is a
\* literal prefix of the node's term value.
C2_PrefixInvariant ==
    \A n \in 2..Len(nodes) :
        IsPrefix(TypedSpan(nodes[n].start_index, nodes[n].end_index), nodes[n].term)

\* a candidate has been rejected and another kept, reaching past the input
C2_Witness ==
    /\ pc = "build"
    /\ \E k \in 1..Len(stack) :
         /\ stack[k].phase = "loop"
         /\ \E j \in 1..(stack[k].i - 1) :
              ~IsPrefix(TypedSpan(nodes[stack[k].node].end_index,
                                  nodes[stack[k].node].end_index
                                      + word_count(stack[k].results[j])),
                        stack[k].results[j])
    /\ \E n \in 2..Len(nodes) : nodes[n].end_index > Len(input_words)

\* C3: suggestions returns exactly the root-child-to-leaf paths of the match
\* tree that pass the coverage filter, each once, in depth-first order, the
\* children of every node being the accepted candidates in the order the
\* lookup returned them.
C3_OrderAndCompleteness ==
    Rebuilt =>
        /\ cache_has(cache, input_text)
        /\ {Ids(StoredPaths[k]) : k \in 1..Len(StoredPaths)}
               = {Ancestry(n) : n \in CoveringLeaves}
        /\ Len(StoredPaths) = Cardinality(CoveringLeaves)
        /\ \A k1, k2 \in 1..Len(StoredPaths) :
               k1 < k2 => DfsBefore(Ids(StoredPaths[k1]), Ids(StoredPaths[k2]))
        /\ \A q \in 1..Len(nodes) :
               nodes[q].end_index < Len(input_words) =>
                   [k \in 1..Len(nodes[q].children) |-> nodes[nodes[q].children[k]].term]
                     = SelectSeq(search(index, input_words[nodes[q].end_index + 1]),
                                 LAMBDA v : IsPrefix(TypedSpan(nodes[q].end_index,
                                                nodes[q].end_index + word_count(v)), v))
        /\ result.value =
               [k \in 1..Len(StoredPaths) |->
                   [j \in 1..Len(StoredPaths[k]) |-> nodes[StoredPaths[k][j].id].term]]

\* two suggestions of different depth were returned
C3_Witness ==
    /\ Rebuilt
    /\ Len(result.value) >= 2
    /\ Len(result.value[1]) = 2
    /\ Len(result.value[2]) = 1

\* C4: with an unchanged lookup, a call of suggestions returns the same
\* ordered output as the first call with the same text did, whether it is
\* served from the cache or recomputed after eviction.
C4_Idempotence ==
    Returned => result = firstOut[input_text]

\* a text answered before was recomputed after its entry was evicted
C4_Witness ==
    /\ Returned
    /\ repeat
    /\ ~hadEntry
    /\ result.value # <<>>

CacheKeys == {cache[i].key : i \in 1..Len(cache)}

\* C5: the cache never holds more than its capacity, and the entries it
\* holds are the most recently used keys: an eviction removes the least
\* recently used one.
C5_CacheBound ==
    /\ Len(cache) <= maxsize
    /\ Cardinality(CacheKeys) = Len(cache)
    /\ Len(cache) = Min(maxsize, Len(recency))
    /\ CacheKeys = {recency[i] : i \in (Len(recency) - Len(cache) + 1)..Len(recency)}

\* a miss at capacity has stored its result and evicted an entry
C5_Witness ==
    /\ Returned
    /\ ~hadEntry
    /\ Len(cache) = maxsize
    /\ Len(recency) > maxsize

\* C6: a call whose text has a cache entry makes no lookup call and returns
\* the stored list; a call whose text has none rebuilds the tree through
\* the lookup.
C6_RecomputeExactlyOnMiss ==
    (pc = "idle" /\ result.kind # "none") =>
        /\ hadEntry <=> searches = 0
        /\ hadEntry => /\ result.kind = "ok"
                       /\ cache_has(cache, input_text)
                       /\ result.value = project(StoredPaths)

\* a call was answered from the cache
C6_Witness ==
    /\ Returned
    /\ hadEntry
    /\ searches = 0
    /\ result.value # <<>>
    /\ Len(cache) = maxsize

\* C7: a lookup failure ends the call with an error, stores nothing and
\* leaves every cache entry as it was, so the text has no entry afterwards.
C7_LookupFailure ==
    [][SearchFail =>
          /\ result'.kind = "lookup_error"
          /\ pc' = "idle"
          /\ cache' = cache
          /\ input_text \notin {cache'[i].key : i \in 1..Len(cache')}]_vars

\* a lookup failed in the middle of a build while the cache held entries
C7_Witness ==
    /\ pc = "idle"
    /\ result.kind = "lookup_error"
    /\ searches >= 2
    /\ cache # <<>>

\* C8: no engine instance holds an invalid pattern and no suggestions call
\* fails because of the pattern.
C8_FailFastAtConstruction ==
    /\ pc # "new" => valid_pattern(words_split_regex)
    /\ result.kind # "pattern_error"

CoveringPaths ==
    SelectSeq(root_child_paths(nodes),
              LAMBDA p : nodes[p[Len(p)]].end_index >= Len(input_words))

\* C9 as stated: the value stored on a miss is the unfiltered list of all
\* root-child-to-leaf paths.
C9_StoresUnfiltered ==
    Rebuilt =>
        /\ cache_has(cache, input_text)
        /\ [k \in 1..Len(StoredPaths) |-> Ids(StoredPaths[k])] = root_child_paths(nodes)

\* C9 amended: the value stored on a miss is the coverage-filtered list;
\* every stored path covers the tokens of its key, and a call returns the
\* projection of the stored list as it is.
C9_StoresFiltered ==
    /\ \A i \in 1..Len(cache) :
          \A k \in 1..Len(cache[i].value) :
              cache[i].value[k][Len(cache[i].value[k])].end_index
                  >= TokenCount(cache[i].key)
    /\ Rebuilt =>
          /\ cache_has(cache, input_text)
          /\ [k \in 1..Len(StoredPaths) |-> Ids(StoredPaths[k])] = CoveringPaths
    /\ Returned => result.value = project(StoredPaths)

\* a miss stored fewer paths than the tree has
C9_Witness ==
    /\ Rebuilt
    /\ cache_has(cache, input_text)
    /\ Len(StoredPaths) < Len(root_child_paths(nodes))
    /\ Len(StoredPaths) >= 1
    /\ Len(cache) = maxsize

\* C10: each child starts where its parent ends and ends strictly later, a
\* node at or past the last token is a leaf on which the lookup is never
\* called, and the tree is no deeper than the number of tokens.
C10_Termination ==
    pc = "build" \/ Rebuilt =>
        /\ \A n \in 2..Len(nodes) :
              /\ nodes[n].end_index > nodes[n].start_index
              /\ Attached(n) => nodes[n].start_index = nodes[Parent(n)].end_index
              /\ stack = <<>> => Len(Ancestry(n)) <= Len(input_words)
        /\ \A k \in 1..(Len(stack) - 1) :
              nodes[stack[k + 1].node].start_index = nodes[stack[k].node].end_index
        /\ Len(stack) <= Len(input_words) + 1
        /\ \A n \in 1..Len(nodes) :
              nodes[n].end_index >= Len(input_words) =>
                  /\ nodes[n].children = <<>>
                  /\ n \notin searched
                  /\ \A k \in 1..Len(stack) :
                        stack[k].node = n => stack[k].phase = "enter"

\* a finished tree as deep as the input has tokens, with a second leaf that
\* reaches the end of the input at depth one
C10_Witness ==
    /\ Rebuilt
    /\ Len(input_words) = 2
    /\ \E n \in 2..Len(nodes) : Len(Ancestry(n)) = 2
    /\ \E n \in 2..Len(nodes) :
          /\ Len(Ancestry(n)) = 1
          /\ nodes[n].end_index = 2
          /\ n \notin searched

\* every build ends: the call returns or raises
BuildEnds == (pc = "build") ~> (pc = "idle")

=============================================================================
